---- MODULE Spec2Model ----
(***************************************************************************)
(* Model of ai_hr_tweet_generator_production.py: main() runs fetch_news,   *)
(* generate_posts and send_to_spreadsheet once, in sequence.               *)
(*                                                                         *)
(* Strings that the program slices or searches (the generation reply) are  *)
(* sequences of one-character strings.  Other strings are opaque values.   *)
(* The three remote services are inputs: each action draws the service's   *)
(* answer from a finite set.                                               *)
(***************************************************************************)
EXTENDS Integers, Sequences, FiniteSets

VARIABLES
    pc,         \* position of main(): start, fetch, fetched, gen, summary, publish, done, error
    exc,        \* the uncaught exception that ended the run ("none" while there is none)
    env,        \* os.environ, as far as the program reads it
    qi,         \* fetch_news: index of the query the for loop handles next
    all_news,   \* fetch_news: all_news
    seen,       \* fetch_news: seen
    news,       \* main: news (the value fetch_news returned)
    responses,  \* the answer the search service gave to each query so far
    requests,   \* every outbound request so far, in order
    reply,      \* the answer of the generation service
    text,       \* generate_posts: text, once the JSON has been cut out of the reply
    result,     \* main: result (the value generate_posts returned)
    post,       \* the answer of the spreadsheet webhook
    data,       \* send_to_spreadsheet: data
    out         \* everything printed so far

vars == <<pc, exc, env, qi, all_news, seen, news, responses, requests,
          reply, text, result, post, data, out>>

----------------------------------------------------------------------------
(* Program constants *)

NumQueries == 3
MaxResults == 5
SummaryLen == 300
MaxNews == 10

(* Bounds of the model *)

NumUrls == 15
MaxSegs == 5
MaxTime == 2

Min(a, b) == IF a < b THEN a ELSE b
Max(a, b) == IF a < b THEN b ELSE a
SetMin(S) == CHOOSE x \in S : \A y \in S : x <= y
SetMax(S) == CHOOSE x \in S : \A y \in S : y <= x

----------------------------------------------------------------------------
(* Python's str and list operations, with Python's 0-based indices *)

\* s[i : i + len(pat)] == pat
MatchAt(s, pat, i) ==
    /\ i >= 0
    /\ i + Len(pat) <= Len(s)
    /\ \A k \in 1..Len(pat) : s[i + k] = pat[k]

\* s.find(pat): the lowest index where pat occurs, -1 when it does not
PyFind(s, pat) ==
    LET hits == {i \in 0..(Len(s) - Len(pat)) : MatchAt(s, pat, i)}
    IN  IF hits = {} THEN -1 ELSE SetMin(hits)

\* s.rfind(pat): the highest index where pat occurs, -1 when it does not
PyRFind(s, pat) ==
    LET hits == {i \in 0..(Len(s) - Len(pat)) : MatchAt(s, pat, i)}
    IN  IF hits = {} THEN -1 ELSE SetMax(hits)

\* pat in s
PyIn(pat, s) == PyFind(s, pat) # -1

\* one bound of a slice: negative counts from the end, then clamp to 0..len
SliceIndex(n, i) == IF i < 0 THEN Max(i + n, 0) ELSE Min(i, n)

\* s[a:b]
PySlice(s, a, b) ==
    SubSeq(s, SliceIndex(Len(s), a) + 1, SliceIndex(Len(s), b))

\* s[:n] for n >= 0
PyHead(s, n) == PySlice(s, 0, n)

\* s.split(pat): the pieces between the non-overlapping occurrences, left to right
RECURSIVE PySplit(_, _)
PySplit(s, pat) ==
    LET i == PyFind(s, pat)
    IN  IF i = -1
        THEN <<s>>
        ELSE <<SubSeq(s, 1, i)>> \o PySplit(SubSeq(s, i + Len(pat) + 1, Len(s)), pat)

\* d.get(k, default) on a dict (a function whose domain is the keys present)
DictGet(d, k, default) == IF k \in DOMAIN d THEN d[k] ELSE default

EmptyDict == <<>>

----------------------------------------------------------------------------
(* generate_posts: the text handed to json.loads *)

\* the backquote character (the lexer of TLA+ accepts no backquote in a string)
Tick == "'"
FenceJson == <<Tick, Tick, Tick, "j", "s", "o", "n">>
Fence == <<Tick, Tick, Tick>>
LBrace == <<"{">>
RBrace == <<"}">>

ExtractJson_first_close(raw) ==
    IF PyIn(FenceJson, raw)
    THEN PySplit(PySplit(raw, FenceJson)[2], Fence)[1]
    ELSE PySlice(raw, PyFind(raw, LBrace), PyFind(raw, RBrace) + 1)

\* lines 97-100
ExtractJson(raw) ==
    IF PyIn(FenceJson, raw)
    THEN PySplit(PySplit(raw, FenceJson)[2], Fence)[1]
    ELSE PySlice(raw, PyFind(raw, LBrace), PyRFind(raw, RBrace) + 1)

----------------------------------------------------------------------------
(* json.loads, on the JSON documents of the model.  A document is an object *)
(* "{" member "}" with at most one member, or the empty array "[]", with    *)
(* any amount of white space around the tokens.  A member character stands  *)
(* for the whole member list of one generation result; the braces of its    *)
(* posts are inside it, so a reply holds it between its own two braces,     *)
(* except "0", which has no post and no brace.                              *)

Whitespace == {" "}
MemberChars == {"0", "1", "2", "3", "4", "5"}

PostText == <<"post text 1", "post text 2", "post text 3", "post text 4">>
PostDraft(k) == [text |-> PostText[k], format_type |-> "format", hook |-> "hook"]
PostsOf(n) == [k \in 1..n |-> PostDraft(k)]

GenerationResult(posts) ==
    [selected_news |-> "news title", selected_news_url |-> "news url",
     reason |-> "reason", posts |-> posts]

\* the object a member character stands for: "0".."4" carry that many posts,
\* "5" carries one post that has no "text" key
ObjectOf(m) ==
    CASE m = "0" -> GenerationResult(PostsOf(0))
      [] m = "1" -> GenerationResult(PostsOf(1))
      [] m = "2" -> GenerationResult(PostsOf(2))
      [] m = "3" -> GenerationResult(PostsOf(3))
      [] m = "4" -> GenerationResult(PostsOf(4))
      [] m = "5" -> GenerationResult(<<[format_type |-> "format", hook |-> "hook"]>>)

JsonError == [kind |-> "error"]
JsonList == [kind |-> "list"]
JsonDict(d) == [kind |-> "dict", val |-> d]

Tokens(doc) == SelectSeq(doc, LAMBDA c : c \notin Whitespace)

\* line 102: the parsed value, or JsonError where json.loads raises JSONDecodeError
JsonLoads(doc) ==
    LET t == Tokens(doc)
    IN  IF t = <<"{", "}">> THEN JsonDict(EmptyDict)
        ELSE IF Len(t) = 3 /\ t[1] = "{" /\ t[2] \in MemberChars /\ t[3] = "}"
             THEN JsonDict(ObjectOf(t[2]))
        ELSE IF t = <<"[", "]">> THEN JsonList
        ELSE JsonError

----------------------------------------------------------------------------
(* fetch_news *)

KeyName == "TAVILY_API_KEY"

\* lines 56-57: not os.environ.get("TAVILY_API_KEY"), true of an unset and of
\* an empty variable
KeyMissing_inverted(e) == KeyName \in DOMAIN e /\ e[KeyName] # ""

KeyMissing(e) == KeyName \notin DOMAIN e \/ e[KeyName] = ""

\* one element of the "results" array.  The page at URL u has title u; content
\* is the length of the page's content string.
SearchItem(u) == [title |-> u, content |-> (u % 4) * 150, url |-> u]

\* lines 76-80; summary is the length of content[:300]
NewsItem(item) ==
    [title |-> item.title, summary |-> Min(item.content, SummaryLen), url |-> item.url]

AddItem_no_seen_check(acc, item) ==
    [seen |-> acc.seen \cup {item.url},
     all_news |-> Append(acc.all_news, NewsItem(item))]

\* lines 74-80: one pass of the loop over the results
AddItem(acc, item) ==
    IF item.url \notin acc.seen
    THEN [seen |-> acc.seen \cup {item.url},
          all_news |-> Append(acc.all_news, NewsItem(item))]
    ELSE acc

\* lines 73-80: the loop over the results of one response
RECURSIVE AddResults(_, _)
AddResults(acc, results) ==
    IF results = <<>> THEN acc
    ELSE AddResults(AddItem(acc, Head(results)), Tail(results))

\* line 72: requests' raise_for_status raises for a 4xx or 5xx status
RaiseForStatus(status) == 400 <= status /\ status < 600

\* line 73: r.json() raises when the answer has no body to parse: the HTTP
\* client reads none for a status 1xx, 204 or 304, whatever the service sent
JsonRaises(status) == status < 200 \/ status \in {204, 304}

\* lines 65-73: the request raised (no connection), raise_for_status did, or
\* r.json() did
SearchFails(resp) ==
    \/ resp.kind = "neterr"
    \/ RaiseForStatus(resp.status)
    \/ JsonRaises(resp.status)

Msg(tag, n) == [tag |-> tag, n |-> n]
Request(to, n) == [to |-> to, n |-> n]

SearchError_break ==
    /\ out' = Append(out, Msg("search_error", qi))
    /\ qi' = NumQueries + 1
    /\ UNCHANGED <<all_news, seen, pc, exc>>

\* lines 81-82: the handler of the try block, then the next query
SearchError ==
    /\ out' = Append(out, Msg("search_error", qi))
    /\ qi' = qi + 1
    /\ UNCHANGED <<all_news, seen, pc, exc>>

\* lines 84 and 132: the value fetch_news returns
Truncate_tail(list) == PySlice(list, 0 - MaxNews, Len(list))

Truncate(list) == PyHead(list, MaxNews)

----------------------------------------------------------------------------
(* The answers of the search service *)

NetErr == [kind |-> "neterr", status |-> 0, results |-> <<>>]
HttpResponse(status, urls) ==
    [kind |-> "response", status |-> status,
     results |-> [i \in 1..Len(urls) |-> SearchItem(urls[i])]]

Window(a, n) == [i \in 1..n |-> a + i - 1]

\* every window of 2 or of max_results consecutive URLs, the windows of 2 also
\* with their first URL repeated at the end, and as the body of an answer of
\* status 300; an empty result; the failures, with and without a body sent
FetchResponses ==
    {NetErr, HttpResponse(404, <<>>), HttpResponse(500, <<>>), HttpResponse(200, <<>>),
     HttpResponse(404, <<1, 2>>), HttpResponse(304, <<>>), HttpResponse(304, <<1, 2>>),
     HttpResponse(204, <<3, 4>>)}
    \cup {HttpResponse(300, Window(a, 2)) : a \in 1..(NumUrls - 1)}
    \cup {HttpResponse(200, Window(a, 2)) : a \in 1..(NumUrls - 1)}
    \cup {HttpResponse(200, Window(a, 2) \o <<a>>) : a \in 1..(NumUrls - 1)}
    \cup {HttpResponse(200, Window(a, MaxResults)) : a \in 1..(NumUrls - MaxResults + 1)}

PipelineResponses ==
    {NetErr, HttpResponse(500, <<>>), HttpResponse(200, <<>>),
     HttpResponse(200, <<1, 2, 1>>), HttpResponse(200, <<2, 3>>)}

GenResponses == {HttpResponse(200, <<1, 2>>)}

Environments == {EmptyDict, [TAVILY_API_KEY |-> ""], [TAVILY_API_KEY |-> "key"]}

\* the time, in seconds since the run began
Times == 0..MaxTime

----------------------------------------------------------------------------
(* The answers of the generation service *)

NoReply == [kind |-> "none", text |-> <<>>]
ApiError == [kind |-> "api_error", text |-> <<>>]
NoContent == [kind |-> "no_content", text |-> <<>>]
TextReply(raw) == [kind |-> "text", text |-> raw]

RECURSIVE Flatten(_)
Flatten(ss) == IF ss = <<>> THEN <<>> ELSE Head(ss) \o Flatten(Tail(ss))

Object(m) == <<"{", m, "}">>

\* the pieces of a reply: the fences, the braces, an object, prose, white space
Segments == {FenceJson, Fence, LBrace, RBrace, Object("1"), <<"a">>, <<" ">>}

\* every text made of at most MaxSegs segments
GenReplies ==
    {TextReply(Flatten(ss)) : ss \in UNION {[1..n -> Segments] : n \in 0..MaxSegs}}

PipelineReplies ==
    {ApiError, NoContent}
    \cup {TextReply(Object(m)) : m \in MemberChars}
    \cup {TextReply(t) : t \in
           {<<"{", "}">>, <<"[", "]">>, <<"a">>, <<"{", "0">>, <<"}", "0", "{">>,
            <<"a", " ">> \o Object("1") \o <<" ", "a">>,
            Object("1") \o <<"a">> \o Object("2"),
            <<"a">> \o FenceJson \o <<" ">> \o Object("2") \o <<" ">> \o Fence \o <<"a">>,
            FenceJson \o <<"{", "2">> \o Fence}}

ParseJson_lenient(doc) ==
    IF JsonLoads(doc).kind = "error" THEN JsonDict(EmptyDict) ELSE JsonLoads(doc)

\* line 102: json.loads(text), its JSONDecodeError not caught
ParseJson(doc) == JsonLoads(doc)

----------------------------------------------------------------------------
(* send_to_spreadsheet *)

NoResult == [kind |-> "none"]
NoPost == [kind |-> "none", status |-> 0]
PostNetErr == [kind |-> "neterr", status |-> 0]
PostResponse(status) == [kind |-> "response", status |-> status]
PublishResponses == {PostNetErr, PostResponse(200), PostResponse(500)}

\* datetime.now().strftime('%Y-%m-%d %H:%M:%S') at time t
Strftime(t) == <<"%Y-%m-%d %H:%M:%S", t>>

PostSlot_null(posts, k) ==
    IF Len(posts) > k THEN DictGet(posts[k + 1], "text", "") ELSE "null"

\* lines 113-115: posts[k].get("text", "") if len(posts) > k else ""
PostSlot(posts, k) ==
    IF Len(posts) > k THEN DictGet(posts[k + 1], "text", "") ELSE ""

\* lines 106-116
BuildRecord(res, t) ==
    LET posts == DictGet(res, "posts", <<>>)
    IN  [timestamp |-> Strftime(t),
         selected_news |-> DictGet(res, "selected_news", ""),
         selected_news_url |-> DictGet(res, "selected_news_url", ""),
         reason |-> DictGet(res, "reason", ""),
         post1 |-> PostSlot(posts, 0),
         post2 |-> PostSlot(posts, 1),
         post3 |-> PostSlot(posts, 2)]

SendError_raise ==
    /\ out' = out
    /\ pc' = "error"
    /\ exc' = "ConnectionError"

\* lines 122-123: the handler of the try block, then the return
SendError ==
    /\ out' = Append(out, Msg("send_error", 0))
    /\ pc' = "done"
    /\ exc' = exc

\* lines 120-121: what is printed once requests.post has returned a response
SendReport(p) ==
    out' = out \o <<Msg("sent", 0), Msg("response", p.status)>>

----------------------------------------------------------------------------
(* main *)

\* line 135: not news
NotNews_never(list) == FALSE

NotNews(list) == list = <<>>

Init ==
    /\ pc = "start"
    /\ exc = "none"
    /\ env \in Environments
    /\ qi = 1
    /\ all_news = <<>>
    /\ seen = {}
    /\ news = <<>>
    /\ responses = <<>>
    /\ requests = <<>>
    /\ reply = NoReply
    /\ text = <<>>
    /\ result = NoResult
    /\ post = NoPost
    /\ data = EmptyDict
    /\ out = <<>>

\* lines 126-132 and 56-61: the banner, then the start of fetch_news
Enter ==
    /\ pc = "start"
    /\ out' = <<Msg("header", 0), Msg("fetching", 0)>>
    /\ IF KeyMissing(env)
       THEN /\ pc' = "error"
            /\ exc' = "ValueError"
            /\ UNCHANGED <<qi, all_news, seen>>
       ELSE /\ pc' = "fetch"
            /\ exc' = exc
            /\ qi' = 1
            /\ all_news' = <<>>
            /\ seen' = {}
    /\ UNCHANGED <<env, news, responses, requests, reply, text, result, post, data>>

\* lines 63-82: one pass of the loop over the queries, the service answering
\* with one of the responses R
SearchQuery(R) ==
    /\ pc = "fetch"
    /\ qi <= NumQueries
    /\ \E resp \in R :
        /\ requests' = Append(requests, Request("search", qi))
        /\ responses' = Append(responses, resp)
        /\ IF SearchFails(resp)
           THEN SearchError
           ELSE LET acc == AddResults([seen |-> seen, all_news |-> all_news],
                                      resp.results)
                IN  /\ all_news' = acc.all_news
                    /\ seen' = acc.seen
                    /\ qi' = qi + 1
                    /\ UNCHANGED <<pc, exc, out>>
    /\ UNCHANGED <<env, news, reply, text, result, post, data>>

\* lines 84 and 132-133: fetch_news returns, main prints the count
FetchReturn ==
    /\ pc = "fetch"
    /\ qi > NumQueries
    /\ news' = Truncate(all_news)
    /\ out' = Append(out, Msg("count", Len(news')))
    /\ pc' = "fetched"
    /\ UNCHANGED <<exc, env, qi, all_news, seen, responses, requests, reply,
                   text, result, post, data>>

\* lines 135-142
CheckNews ==
    /\ pc = "fetched"
    /\ IF NotNews(news)
       THEN /\ out' = Append(out, Msg("no_news", 0))
            /\ pc' = "done"
       ELSE /\ out' = out \o [i \in 1..Len(news) |-> Msg("item", news[i].title)]
                          \o <<Msg("generating", 0)>>
            /\ pc' = "gen"
    /\ UNCHANGED <<exc, env, qi, all_news, seen, news, responses, requests,
                   reply, text, result, post, data>>

\* lines 143 and 86-102: generate_posts, the service answering with one of R
GeneratePosts(R) ==
    /\ pc = "gen"
    /\ \E r \in R :
        /\ reply' = r
        /\ requests' = Append(requests, Request("generate", Len(news)))
        /\ IF r.kind = "api_error"
           THEN pc' = "error" /\ exc' = "APIError" /\ UNCHANGED <<text, result>>
           ELSE IF r.kind = "no_content"
           THEN pc' = "error" /\ exc' = "IndexError" /\ UNCHANGED <<text, result>>
           ELSE /\ text' = ExtractJson(r.text)
                /\ IF ParseJson(text').kind = "error"
                   THEN pc' = "error" /\ exc' = "JSONDecodeError" /\ result' = result
                   ELSE pc' = "summary" /\ exc' = exc /\ result' = ParseJson(text')
    /\ UNCHANGED <<env, qi, all_news, seen, news, responses, post, data, out>>

\* lines 145-159: the generation summary
PrintSummary ==
    /\ pc = "summary"
    /\ IF result.kind # "dict"
       THEN /\ out' = Append(out, Msg("banner", 0))
            /\ pc' = "error"
            /\ exc' = "AttributeError"
       ELSE LET posts == DictGet(result.val, "posts", <<>>)
            IN  /\ out' = out \o <<Msg("banner", 0), Msg("selected", 0), Msg("url", 0),
                                   Msg("reason", 0), Msg("banner", 0)>>
                                \o [i \in 1..Len(posts) |-> Msg("post", i)]
                                \o <<Msg("sending", 0)>>
                /\ pc' = "publish"
                /\ exc' = exc
    /\ UNCHANGED <<env, qi, all_news, seen, news, responses, requests, reply,
                   text, result, post, data>>

\* lines 160 and 104-123: send_to_spreadsheet, the webhook answering with p
SendToSpreadsheet ==
    /\ pc = "publish"
    /\ \E t \in Times, p \in PublishResponses :
        /\ data' = BuildRecord(result.val, t)
        /\ requests' = Append(requests, Request("publish", 0))
        /\ post' = p
        /\ IF p.kind = "neterr"
           THEN SendError
           ELSE SendReport(p) /\ pc' = "done" /\ exc' = exc
    /\ UNCHANGED <<env, qi, all_news, seen, news, responses, reply, text, result>>

\* the whole run
Next ==
    \/ Enter
    \/ SearchQuery(PipelineResponses)
    \/ FetchReturn
    \/ CheckNews
    \/ GeneratePosts(PipelineReplies)
    \/ PrintSummary
    \/ SendToSpreadsheet

Spec == Init /\ [][Next]_vars

\* fetch_news alone, under every answer of the search service
NextFetch ==
    \/ Enter
    \/ SearchQuery(FetchResponses)
    \/ FetchReturn

SpecFetch == Init /\ [][NextFetch]_vars

\* the run under one search history and every reply of the generation service
NextGen ==
    \/ Enter
    \/ SearchQuery(GenResponses)
    \/ FetchReturn
    \/ CheckNews
    \/ GeneratePosts(GenReplies)
    \/ PrintSummary
    \/ SendToSpreadsheet

SpecGen == Init /\ [][NextGen]_vars

----------------------------------------------------------------------------
(* What the search service returned, as the claims speak of it *)

\* the results of every query so far, in query order and response order; a
\* failed request contributes none
Walk ==
    Flatten([i \in 1..Len(responses) |->
                IF SearchFails(responses[i]) THEN <<>> ELSE responses[i].results])

\* the positions of the walk w that hold the first occurrence of their URL
FirstOccurrences(w) ==
    {i \in 1..Len(w) : \A j \in 1..(i - 1) : w[j].url # w[i].url}

\* the k-th smallest of the positions P
KthOf(P, k) == CHOOSE p \in P : Cardinality({q \in P : q <= p}) = k

UrlsOf(list) == [i \in 1..Len(list) |-> list[i].url]

Searches == SelectSeq(requests, LAMBDA r : r.to = "search")
Generations == SelectSeq(requests, LAMBDA r : r.to = "generate")
Publications == SelectSeq(requests, LAMBDA r : r.to = "publish")

Printed(tag) == \E i \in 1..Len(out) : out[i].tag = tag

----------------------------------------------------------------------------
(* fetch_news *)

\* C1: whatever the search service answered, with URLs repeated inside one
\* response or across responses, the list fetch_news builds and the list it
\* returns hold each URL at most once, and the returned list has at most 10 items.
UniqueAndCapped ==
    /\ \A i, j \in 1..Len(all_news) : i # j => all_news[i].url # all_news[j].url
    /\ pc = "fetched" =>
        /\ Len(news) <= MaxNews
        /\ \A i, j \in 1..Len(news) : i # j => news[i].url # news[j].url

\* more than 10 distinct URLs were found, some URL came twice, and 10 came back
UniqueAndCappedWitness ==
    /\ pc = "fetched"
    /\ Len(news) = MaxNews
    /\ LET w == Walk
           firsts == FirstOccurrences(w)
       IN  /\ Cardinality(firsts) > MaxNews
           /\ Cardinality(firsts) < Len(w)

\* C2: the returned list is the first 10 items of the walk through the queries
\* in order and each response in order that keeps the first occurrence of each
\* URL: item k is the item of the k-th first occurrence.  Three responses of
\* five URLs each, all distinct, give the five of query 1 and the five of query 2.
FirstTenInOrder ==
    pc = "fetched" =>
        /\ LET w == Walk
               firsts == FirstOccurrences(w)
           IN  /\ Len(news) = Min(MaxNews, Cardinality(firsts))
               /\ \A k \in 1..Len(news) : news[k] = NewsItem(w[KthOf(firsts, k)])
        /\ (Len(responses) = 3
            /\ \A i \in 1..3 : ~SearchFails(responses[i])
            /\ UrlsOf(responses[1].results) = Window(1, 5)
            /\ UrlsOf(responses[2].results) = Window(6, 5)
            /\ UrlsOf(responses[3].results) = Window(11, 5))
           => UrlsOf(news) = Window(1, 10)

\* the 3 x 5 scenario
FirstTenInOrderWitness ==
    /\ pc = "fetched"
    /\ \A i \in 1..3 : ~SearchFails(responses[i])
    /\ UrlsOf(responses[1].results) = Window(1, 5)
    /\ UrlsOf(responses[2].results) = Window(6, 5)
    /\ UrlsOf(responses[3].results) = Window(11, 5)
    /\ UrlsOf(news) = Window(1, 10)

\* the results fetch_news can read in an answer: none when the answer has no
\* body for the client (status 1xx, 204, 304)
Received(r) ==
    IF r.kind = "neterr" \/ r.status < 200 \/ r.status = 204 \/ r.status = 304
    THEN <<>>
    ELSE r.results

\* C3, as amended: whichever search requests fail, with no connection, with
\* a 4xx or 5xx status or with an answer that has no body to parse (1xx, 204,
\* 304), fetch_news raises nothing, sends the request of every query, in
\* order, and returns what the other responses alone give, first occurrences
\* in order and at most 10; every URL of a response that did not fail is
\* collected.  An answer of another status, 300 for one, is no failure.
FailuresSkipped ==
    /\ responses # <<>> => (pc \in {"fetch", "fetched"} /\ exc = "none")
    /\ pc \in {"fetch", "fetched"} =>
        /\ requests = [i \in 1..(qi - 1) |-> Request("search", i)]
        /\ Len(responses) = qi - 1
        /\ Len(SelectSeq(out, LAMBDA m : m.tag = "search_error"))
             = Len(SelectSeq(responses,
                             LAMBDA r : \/ r.kind = "neterr"
                                        \/ (400 <= r.status /\ r.status < 600)
                                        \/ r.status < 200
                                        \/ r.status \in {204, 304}))
        /\ \A i \in 1..Len(responses) :
             ~(\/ responses[i].kind = "neterr"
               \/ (400 <= responses[i].status /\ responses[i].status < 600)
               \/ responses[i].status < 200
               \/ responses[i].status \in {204, 304}) =>
                \A k \in 1..Len(responses[i].results) :
                    \E n \in 1..Len(all_news) : all_news[n].url = responses[i].results[k].url
    /\ pc = "fetched" =>
        /\ qi = NumQueries + 1
        /\ LET good == SelectSeq(responses,
                                 LAMBDA r : ~(\/ r.kind = "neterr"
                                              \/ (400 <= r.status /\ r.status < 600)
                                              \/ r.status < 200
                                              \/ r.status \in {204, 304}))
               urls == Flatten([i \in 1..Len(good) |-> UrlsOf(good[i].results)])
               firsts == {i \in 1..Len(urls) : \A j \in 1..(i - 1) : urls[j] # urls[i]}
           IN  /\ Len(news) = Min(MaxNews, Cardinality(firsts))
               /\ \A k \in 1..Len(news) : news[k].url = urls[KthOf(firsts, k)]

\* an answer of status 304 and a lost connection came between two answers that
\* returned URLs, one of them under status 300: both sets came back, and
\* nothing of what the 304 answer was sent with
FailuresSkippedWitness ==
    /\ pc = "fetched"
    /\ exc = "none"
    /\ Len(responses) = 3
    /\ responses[1].status = 300 /\ responses[1].results # <<>>
    /\ responses[2].kind = "neterr" \/ (responses[2].status = 304 /\ responses[2].results # <<>>)
    /\ responses[3].status = 200 /\ responses[3].results # <<>>
    /\ \E n \in 1..Len(news) : news[n].url = responses[1].results[1].url
    /\ \E n \in 1..Len(news) : news[n].url = responses[3].results[1].url
    /\ responses[1].results[1].url # responses[3].results[1].url

\* C3, as first stated: the requests that fail are those with no connection or
\* with a status that is not 2xx, and what fetch_news returns is what it
\* received in the other responses alone.
FailuresSkippedNon2xx ==
    /\ responses # <<>> => (pc \in {"fetch", "fetched"} /\ exc = "none")
    /\ pc \in {"fetch", "fetched"} =>
        /\ requests = [i \in 1..(qi - 1) |-> Request("search", i)]
        /\ Len(responses) = qi - 1
    /\ pc = "fetched" =>
        /\ qi = NumQueries + 1
        /\ LET good == SelectSeq(responses,
                                 LAMBDA r : ~(r.kind = "neterr"
                                              \/ ~(200 <= r.status /\ r.status < 300)))
               urls == Flatten([i \in 1..Len(good) |-> UrlsOf(Received(good[i]))])
               firsts == {i \in 1..Len(urls) : \A j \in 1..(i - 1) : urls[j] # urls[i]}
           IN  /\ Len(news) = Min(MaxNews, Cardinality(firsts))
               /\ \A k \in 1..Len(news) : news[k].url = urls[KthOf(firsts, k)]

----------------------------------------------------------------------------
(* main *)

NoResults == \A i \in 1..Len(responses) :
                SearchFails(responses[i]) \/ responses[i].results = <<>>

\* C4: when every query failed or returned nothing, fetch_news returns the
\* empty list and the run ends normally with no request to the generation
\* service or to the webhook; the generation service is called only with a
\* list that is not empty.
EmptyHalts ==
    /\ (pc \in {"fetched", "gen", "summary", "publish", "done"} /\ NoResults) =>
        /\ news = <<>>
        /\ pc \in {"fetched", "done"}
        /\ exc = "none"
        /\ Generations = <<>>
        /\ Publications = <<>>
    /\ (pc \in {"gen", "summary", "publish"} \/ Generations # <<>>) => news # <<>>

\* the run has ended after three queries that failed or came back empty
EmptyHaltsWitness ==
    /\ pc = "done"
    /\ Len(responses) = NumQueries
    /\ NoResults
    /\ \E i \in 1..Len(responses) : SearchFails(responses[i])
    /\ Printed("no_news")

\* C7: with no search API key in the environment (unset, or set to the empty
\* string) the run aborts in fetch_news with no request sent, then or later;
\* with a key, the run never aborts in fetch_news: it aborts, if at all, after
\* the request to the generation service.
KeyRequired ==
    IF KeyName \notin DOMAIN env \/ env[KeyName] = ""
    THEN /\ requests = <<>>
         /\ pc \in {"start", "error"}
         /\ pc = "error" => exc = "ValueError"
    ELSE /\ exc # "ValueError"
         /\ pc = "error" => Generations # <<>>

\* the run has aborted for want of the variable
KeyRequiredWitness ==
    /\ KeyName \notin DOMAIN env
    /\ pc = "error"
    /\ exc = "ValueError"
    /\ requests = <<>>

----------------------------------------------------------------------------
(* generate_posts *)

HasFenceJson(raw) == \E i \in 0..Len(raw) : MatchAt(raw, FenceJson, i)

\* the text after the first opener, up to the next fence or, with no fence
\* after it, to the end of the reply
FencedContent(raw) ==
    LET from == SetMin({i \in 0..Len(raw) : MatchAt(raw, FenceJson, i)}) + Len(FenceJson)
        closers == {j \in from..Len(raw) : MatchAt(raw, Fence, j)}
        to == IF closers = {} THEN Len(raw) ELSE SetMin(closers)
    IN  SubSeq(raw, from + 1, to)

Positions(raw, c) == {i \in 1..Len(raw) : raw[i] = c}

Prose(raw) == \A i \in 1..Len(raw) : raw[i] \in {"a", " "}

\* C8: the text handed to the parser is, for a reply with a json fence opener,
\* the content between the first opener and the next fence (the rest of the
\* reply when no fence follows); for a reply without one that has both braces,
\* the text from the first "{" to the last "}".  An object with prose before
\* and after it is parsed.
ExtractionRule ==
    (pc \in {"summary", "publish", "done", "error"} /\ reply.kind = "text") =>
        /\ HasFenceJson(reply.text) => text = FencedContent(reply.text)
        /\ (/\ ~HasFenceJson(reply.text)
            /\ Positions(reply.text, "{") # {}
            /\ Positions(reply.text, "}") # {})
           => text = SubSeq(reply.text, SetMin(Positions(reply.text, "{")),
                            SetMax(Positions(reply.text, "}")))
        /\ \A i, j \in 1..Len(reply.text) :
              (/\ j = i + 2
               /\ SubSeq(reply.text, i, j) = Object("1")
               /\ Prose(SubSeq(reply.text, 1, i - 1))
               /\ Prose(SubSeq(reply.text, j + 1, Len(reply.text))))
              => /\ exc # "JSONDecodeError"
                 /\ result.kind = "dict"
                 /\ result.val = ObjectOf("1")

\* a fenced object with prose on both sides was cut out and parsed
ExtractionRuleWitness ==
    /\ pc = "summary"
    /\ reply.text = <<"a">> \o FenceJson \o Object("1") \o Fence \o <<"a">>
    /\ text = Object("1")
    /\ result.kind = "dict"

\* C10: an error of the generation service, or a reply whose cut-out text is
\* not JSON, ends the run in an error after the three search requests; the
\* generation service is called at most once and the webhook never in such a
\* run; the webhook is called only once generate_posts has returned a value.
GenerationFatal ==
    /\ Len(Generations) <= 1
    /\ (\/ reply.kind \in {"api_error", "no_content"}
        \/ reply.kind = "text" /\ JsonLoads(text).kind = "error") =>
        /\ pc = "error"
        /\ exc \in {"APIError", "IndexError", "JSONDecodeError"}
        /\ result.kind = "none"
        /\ Len(Searches) = NumQueries
        /\ Publications = <<>>
    /\ Publications # <<>> =>
        /\ result.kind = "dict"
        /\ Len(Generations) = 1
        /\ requests[Len(requests)].to = "publish"
        /\ requests[Len(requests) - 1].to = "generate"

\* the reply had no brace at all and the run has ended in the parser's error
GenerationFatalWitness ==
    /\ pc = "error"
    /\ exc = "JSONDecodeError"
    /\ reply.kind = "text"
    /\ Positions(reply.text, "{") = {}
    /\ Positions(reply.text, "}") = {}
    /\ Publications = <<>>

----------------------------------------------------------------------------
(* send_to_spreadsheet *)

RecordKeys == {"timestamp", "selected_news", "selected_news_url", "reason",
               "post1", "post2", "post3"}
PostKey == <<"post1", "post2", "post3">>

\* C9: the record has the seven keys; slot k holds the text of the k-th post
\* when there is one, and the empty string when there are fewer than k posts.
RecordSlots ==
    Publications # <<>> =>
        LET posts == IF "posts" \in DOMAIN result.val THEN result.val.posts ELSE <<>>
        IN  /\ DOMAIN data = RecordKeys
            /\ \A k \in 1..3 :
                 IF k <= Len(posts)
                 THEN "text" \in DOMAIN posts[k] => data[PostKey[k]] = posts[k].text
                 ELSE data[PostKey[k]] = ""

\* a result with one post was sent
RecordSlotsWitness ==
    /\ pc = "done"
    /\ Publications # <<>>
    /\ "posts" \in DOMAIN result.val
    /\ Len(result.val.posts) = 1
    /\ data.post1 = "post text 1"
    /\ data.post2 = ""
    /\ data.post3 = ""

\* C5: a failed submission leaves send_to_spreadsheet normally: the run ends
\* as done with no exception, and everything printed before the call, the
\* generation summary included, is still what was printed.
PublishFailureSwallowed ==
    [][(pc = "publish" /\ post'.kind = "neterr") =>
         /\ pc' = "done"
         /\ exc' = "none"
         /\ Len(out') >= Len(out)
         /\ SubSeq(out', 1, Len(out)) = out
         /\ Printed("selected")]_vars

\* the webhook could not be reached and the run is done
PublishFailureSwallowedWitness ==
    /\ pc = "done"
    /\ post.kind = "neterr"
    /\ exc = "none"
    /\ Printed("selected")
    /\ Printed("send_error")

\* C6: every failed submission, an unreachable webhook or a response whose
\* status is not 2xx, is logged as an error and not as a success, and the
\* call returns normally.
PublishFailureLogged ==
    (pc \in {"done", "error"}
     /\ (post.kind = "neterr"
         \/ (post.kind = "response" /\ ~(200 <= post.status /\ post.status < 300)))) =>
        /\ pc = "done"
        /\ exc = "none"
        /\ Printed("send_error")
        /\ ~Printed("sent")

====
